---- MODULE Spec2Model ----
(***************************************************************************)
(* Model of logparser.py: load_lookup_table, line_generator and tag_lines.  *)
(*                                                                         *)
(* A Python str is the sequence of its Unicode code points, so that         *)
(* isdigit, int, lower, strip and split are computed character by          *)
(* character.  A csv                                                        *)
(* row and the result of split are sequences of such strs.  A dict is a     *)
(* function whose DOMAIN is the set of its keys; a (port, protocol) key is  *)
(* the pair <<port, protocol str>>.                                         *)
(***************************************************************************)
EXTENDS Integers, Sequences, FiniteSets, TLC

VARIABLES pc, nrows, row, lookup_dict, nread, lines, tag_counts,
          port_protocol_counts, untagged_count, log, raised

vars == <<pc, nrows, row, lookup_dict, nread, lines, tag_counts,
          port_protocol_counts, untagged_count, log, raised>>

(* Rows read from the lookup file, and raw lines read from the log file. *)
MaxRows == 2
MaxLines == 2

MaxPort == 65535
NumFields == 14
SupportedVersion == 2

(* The most digits int() converts (sys.int_max_str_digits of CPython 3.11). *)
MaxStrDigits == 4300

----------------------------------------------------------------------------
(* Characters and the str methods the program calls.  A character is its   *)
(* Unicode code point.  The tables below are those of the Unicode database  *)
(* of CPython 3.11 (Unicode 14.0.0).                                        *)

(* The code points of the ASCII digits and letters, for writing the str      *)
(* literals of the code: ord("0") = 48, ord("A") = 65, ord("a") = 97.       *)
AsciiDigits == <<"0", "1", "2", "3", "4", "5", "6", "7", "8", "9">>

AsciiUpper ==
    <<"A", "B", "C", "D", "E", "F", "G", "H", "I", "J", "K", "L", "M",
      "N", "O", "P", "Q", "R", "S", "T", "U", "V", "W", "X", "Y", "Z">>

AsciiLower ==
    <<"a", "b", "c", "d", "e", "f", "g", "h", "i", "j", "k", "l", "m",
      "n", "o", "p", "q", "r", "s", "t", "u", "v", "w", "x", "y", "z">>

Ord(c) ==
    IF \E i \in 1..10 : AsciiDigits[i] = c
    THEN 47 + CHOOSE i \in 1..10 : AsciiDigits[i] = c
    ELSE IF \E i \in 1..26 : AsciiUpper[i] = c
    THEN 64 + CHOOSE i \in 1..26 : AsciiUpper[i] = c
    ELSE 96 + CHOOSE i \in 1..26 : AsciiLower[i] = c

(* The str of the given ASCII digits and letters. *)
Str(chars) == [i \in 1..Len(chars) |-> Ord(chars[i])]

InRanges(c, R) == \E r \in R : r[1] <= c /\ c <= r[2]

(* The characters int() reads as decimal digits (category Nd): each code    *)
(* point below is a digit zero, followed by its digits one to nine.         *)
DecimalZeros ==
    {
      48, 1632, 1776, 1984, 2406, 2534, 2662, 2790, 2918, 3046, 3174, 3302,
      3430, 3558, 3664, 3792, 3872, 4160, 4240, 6112, 6160, 6470, 6608, 6784,
      6800, 6992, 7088, 7232, 7248, 42528, 43216, 43264, 43472, 43504, 43600,
      44016, 65296, 66720, 68912, 69734, 69872, 69942, 70096, 70384, 70736,
      70864, 71248, 71360, 71472, 71904, 72016, 72784, 73040, 73120, 92768,
      92864, 93008, 120782, 120792, 120802, 120812, 120822, 123200, 123632,
      125264, 130032 }

DecimalChars == {z + k : z \in DecimalZeros, k \in 0..9}

(* The other characters str.isdigit is true of, such as the superscript and *)
(* circled digits, which int() does not accept; as ranges <<first, last>>.  *)
OtherDigitRanges ==
    {
      <<178, 179>>, <<185, 185>>, <<4969, 4977>>, <<6618, 6618>>,
      <<8304, 8304>>, <<8308, 8313>>, <<8320, 8329>>, <<9312, 9320>>,
      <<9332, 9340>>, <<9352, 9360>>, <<9450, 9450>>, <<9461, 9469>>,
      <<9471, 9471>>, <<10102, 10110>>, <<10112, 10120>>, <<10122, 10130>>,
      <<68160, 68163>>, <<69216, 69224>>, <<69714, 69722>>, <<127232, 127242>> }

DigitChars == DecimalChars \cup UNION {r[1]..r[2] : r \in OtherDigitRanges}

(* The characters str.strip and str.split remove (str.isspace). *)
Whitespace ==
    {
      9, 10, 11, 12, 13, 28, 29, 30, 31, 32, 133, 160, 5760, 8192, 8193, 8194,
      8195, 8196, 8197, 8198, 8199, 8200, 8201, 8202, 8232, 8233, 8239, 8287,
      12288 }

(* The whitespace int() allows around a number: not the separators 28-31. *)
IntWhitespace == Whitespace \ (28..31)

(* str.lower of one character where it is one character and not the same    *)
(* one: <<first, last, step, delta>> maps every step-th code point from     *)
(* first to last to itself plus delta.                                      *)
LowerTable ==
    {
      <<65, 90, 1, 32>>, <<192, 214, 1, 32>>, <<216, 222, 1, 32>>,
      <<256, 302, 2, 1>>, <<306, 310, 2, 1>>, <<313, 327, 2, 1>>,
      <<330, 374, 2, 1>>, <<376, 376, 1, -121>>, <<377, 381, 2, 1>>,
      <<385, 385, 1, 210>>, <<386, 388, 2, 1>>, <<390, 390, 1, 206>>,
      <<391, 391, 1, 1>>, <<393, 394, 1, 205>>, <<395, 395, 1, 1>>,
      <<398, 398, 1, 79>>, <<399, 399, 1, 202>>, <<400, 400, 1, 203>>,
      <<401, 401, 1, 1>>, <<403, 403, 1, 205>>, <<404, 404, 1, 207>>,
      <<406, 406, 1, 211>>, <<407, 407, 1, 209>>, <<408, 408, 1, 1>>,
      <<412, 412, 1, 211>>, <<413, 413, 1, 213>>, <<415, 415, 1, 214>>,
      <<416, 420, 2, 1>>, <<422, 422, 1, 218>>, <<423, 423, 1, 1>>,
      <<425, 425, 1, 218>>, <<428, 428, 1, 1>>, <<430, 430, 1, 218>>,
      <<431, 431, 1, 1>>, <<433, 434, 1, 217>>, <<435, 437, 2, 1>>,
      <<439, 439, 1, 219>>, <<440, 440, 1, 1>>, <<444, 444, 1, 1>>,
      <<452, 452, 1, 2>>, <<453, 453, 1, 1>>, <<455, 455, 1, 2>>,
      <<456, 456, 1, 1>>, <<458, 458, 1, 2>>, <<459, 475, 2, 1>>,
      <<478, 494, 2, 1>>, <<497, 497, 1, 2>>, <<498, 500, 2, 1>>,
      <<502, 502, 1, -97>>, <<503, 503, 1, -56>>, <<504, 542, 2, 1>>,
      <<544, 544, 1, -130>>, <<546, 562, 2, 1>>, <<570, 570, 1, 10795>>,
      <<571, 571, 1, 1>>, <<573, 573, 1, -163>>, <<574, 574, 1, 10792>>,
      <<577, 577, 1, 1>>, <<579, 579, 1, -195>>, <<580, 580, 1, 69>>,
      <<581, 581, 1, 71>>, <<582, 590, 2, 1>>, <<880, 882, 2, 1>>,
      <<886, 886, 1, 1>>, <<895, 895, 1, 116>>, <<902, 902, 1, 38>>,
      <<904, 906, 1, 37>>, <<908, 908, 1, 64>>, <<910, 911, 1, 63>>,
      <<913, 929, 1, 32>>, <<932, 939, 1, 32>>, <<975, 975, 1, 8>>,
      <<984, 1006, 2, 1>>, <<1012, 1012, 1, -60>>, <<1015, 1015, 1, 1>>,
      <<1017, 1017, 1, -7>>, <<1018, 1018, 1, 1>>, <<1021, 1023, 1, -130>>,
      <<1024, 1039, 1, 80>>, <<1040, 1071, 1, 32>>, <<1120, 1152, 2, 1>>,
      <<1162, 1214, 2, 1>>, <<1216, 1216, 1, 15>>, <<1217, 1229, 2, 1>>,
      <<1232, 1326, 2, 1>>, <<1329, 1366, 1, 48>>, <<4256, 4293, 1, 7264>>,
      <<4295, 4295, 1, 7264>>, <<4301, 4301, 1, 7264>>,
      <<5024, 5103, 1, 38864>>, <<5104, 5109, 1, 8>>,
      <<7312, 7354, 1, -3008>>, <<7357, 7359, 1, -3008>>,
      <<7680, 7828, 2, 1>>, <<7838, 7838, 1, -7615>>, <<7840, 7934, 2, 1>>,
      <<7944, 7951, 1, -8>>, <<7960, 7965, 1, -8>>, <<7976, 7983, 1, -8>>,
      <<7992, 7999, 1, -8>>, <<8008, 8013, 1, -8>>, <<8025, 8031, 2, -8>>,
      <<8040, 8047, 1, -8>>, <<8072, 8079, 1, -8>>, <<8088, 8095, 1, -8>>,
      <<8104, 8111, 1, -8>>, <<8120, 8121, 1, -8>>, <<8122, 8123, 1, -74>>,
      <<8124, 8124, 1, -9>>, <<8136, 8139, 1, -86>>, <<8140, 8140, 1, -9>>,
      <<8152, 8153, 1, -8>>, <<8154, 8155, 1, -100>>, <<8168, 8169, 1, -8>>,
      <<8170, 8171, 1, -112>>, <<8172, 8172, 1, -7>>, <<8184, 8185, 1, -128>>,
      <<8186, 8187, 1, -126>>, <<8188, 8188, 1, -9>>,
      <<8486, 8486, 1, -7517>>, <<8490, 8490, 1, -8383>>,
      <<8491, 8491, 1, -8262>>, <<8498, 8498, 1, 28>>, <<8544, 8559, 1, 16>>,
      <<8579, 8579, 1, 1>>, <<9398, 9423, 1, 26>>, <<11264, 11311, 1, 48>>,
      <<11360, 11360, 1, 1>>, <<11362, 11362, 1, -10743>>,
      <<11363, 11363, 1, -3814>>, <<11364, 11364, 1, -10727>>,
      <<11367, 11371, 2, 1>>, <<11373, 11373, 1, -10780>>,
      <<11374, 11374, 1, -10749>>, <<11375, 11375, 1, -10783>>,
      <<11376, 11376, 1, -10782>>, <<11378, 11378, 1, 1>>,
      <<11381, 11381, 1, 1>>, <<11390, 11391, 1, -10815>>,
      <<11392, 11490, 2, 1>>, <<11499, 11501, 2, 1>>, <<11506, 11506, 1, 1>>,
      <<42560, 42604, 2, 1>>, <<42624, 42650, 2, 1>>, <<42786, 42798, 2, 1>>,
      <<42802, 42862, 2, 1>>, <<42873, 42875, 2, 1>>,
      <<42877, 42877, 1, -35332>>, <<42878, 42886, 2, 1>>,
      <<42891, 42891, 1, 1>>, <<42893, 42893, 1, -42280>>,
      <<42896, 42898, 2, 1>>, <<42902, 42920, 2, 1>>,
      <<42922, 42922, 1, -42308>>, <<42923, 42923, 1, -42319>>,
      <<42924, 42924, 1, -42315>>, <<42925, 42925, 1, -42305>>,
      <<42926, 42926, 1, -42308>>, <<42928, 42928, 1, -42258>>,
      <<42929, 42929, 1, -42282>>, <<42930, 42930, 1, -42261>>,
      <<42931, 42931, 1, 928>>, <<42932, 42946, 2, 1>>,
      <<42948, 42948, 1, -48>>, <<42949, 42949, 1, -42307>>,
      <<42950, 42950, 1, -35384>>, <<42951, 42953, 2, 1>>,
      <<42960, 42960, 1, 1>>, <<42966, 42968, 2, 1>>, <<42997, 42997, 1, 1>>,
      <<65313, 65338, 1, 32>>, <<66560, 66599, 1, 40>>,
      <<66736, 66771, 1, 40>>, <<66928, 66964, 2, 39>>,
      <<66929, 66937, 2, 39>>, <<66941, 66953, 2, 39>>,
      <<66957, 66961, 2, 39>>, <<66965, 66965, 1, 39>>,
      <<68736, 68786, 1, 64>>, <<71840, 71871, 1, 32>>,
      <<93760, 93791, 1, 32>>, <<125184, 125217, 1, 34>> }

LowerEntry(c, e) == e[1] <= c /\ c <= e[2] /\ (c - e[1]) % e[3] = 0

LowerChar(c) ==
    IF \E e \in LowerTable : LowerEntry(c, e)
    THEN c + (CHOOSE e \in LowerTable : LowerEntry(c, e))[4]
    ELSE c

(* The characters str.lower skips around a capital sigma (case-ignorable),  *)
(* and the cased characters among the others.                               *)
CaseIgnorableRanges ==
    {
      <<39, 39>>, <<46, 46>>, <<58, 58>>, <<94, 94>>, <<96, 96>>,
      <<168, 168>>, <<173, 173>>, <<175, 175>>, <<180, 180>>, <<183, 184>>,
      <<688, 879>>, <<884, 885>>, <<890, 890>>, <<900, 901>>, <<903, 903>>,
      <<1155, 1161>>, <<1369, 1369>>, <<1375, 1375>>, <<1425, 1469>>,
      <<1471, 1471>>, <<1473, 1474>>, <<1476, 1477>>, <<1479, 1479>>,
      <<1524, 1524>>, <<1536, 1541>>, <<1552, 1562>>, <<1564, 1564>>,
      <<1600, 1600>>, <<1611, 1631>>, <<1648, 1648>>, <<1750, 1757>>,
      <<1759, 1768>>, <<1770, 1773>>, <<1807, 1807>>, <<1809, 1809>>,
      <<1840, 1866>>, <<1958, 1968>>, <<2027, 2037>>, <<2042, 2042>>,
      <<2045, 2045>>, <<2070, 2093>>, <<2137, 2139>>, <<2184, 2184>>,
      <<2192, 2193>>, <<2200, 2207>>, <<2249, 2306>>, <<2362, 2362>>,
      <<2364, 2364>>, <<2369, 2376>>, <<2381, 2381>>, <<2385, 2391>>,
      <<2402, 2403>>, <<2417, 2417>>, <<2433, 2433>>, <<2492, 2492>>,
      <<2497, 2500>>, <<2509, 2509>>, <<2530, 2531>>, <<2558, 2558>>,
      <<2561, 2562>>, <<2620, 2620>>, <<2625, 2626>>, <<2631, 2632>>,
      <<2635, 2637>>, <<2641, 2641>>, <<2672, 2673>>, <<2677, 2677>>,
      <<2689, 2690>>, <<2748, 2748>>, <<2753, 2757>>, <<2759, 2760>>,
      <<2765, 2765>>, <<2786, 2787>>, <<2810, 2815>>, <<2817, 2817>>,
      <<2876, 2876>>, <<2879, 2879>>, <<2881, 2884>>, <<2893, 2893>>,
      <<2901, 2902>>, <<2914, 2915>>, <<2946, 2946>>, <<3008, 3008>>,
      <<3021, 3021>>, <<3072, 3072>>, <<3076, 3076>>, <<3132, 3132>>,
      <<3134, 3136>>, <<3142, 3144>>, <<3146, 3149>>, <<3157, 3158>>,
      <<3170, 3171>>, <<3201, 3201>>, <<3260, 3260>>, <<3263, 3263>>,
      <<3270, 3270>>, <<3276, 3277>>, <<3298, 3299>>, <<3328, 3329>>,
      <<3387, 3388>>, <<3393, 3396>>, <<3405, 3405>>, <<3426, 3427>>,
      <<3457, 3457>>, <<3530, 3530>>, <<3538, 3540>>, <<3542, 3542>>,
      <<3633, 3633>>, <<3636, 3642>>, <<3654, 3662>>, <<3761, 3761>>,
      <<3764, 3772>>, <<3782, 3782>>, <<3784, 3789>>, <<3864, 3865>>,
      <<3893, 3893>>, <<3895, 3895>>, <<3897, 3897>>, <<3953, 3966>>,
      <<3968, 3972>>, <<3974, 3975>>, <<3981, 3991>>, <<3993, 4028>>,
      <<4038, 4038>>, <<4141, 4144>>, <<4146, 4151>>, <<4153, 4154>>,
      <<4157, 4158>>, <<4184, 4185>>, <<4190, 4192>>, <<4209, 4212>>,
      <<4226, 4226>>, <<4229, 4230>>, <<4237, 4237>>, <<4253, 4253>>,
      <<4348, 4348>>, <<4957, 4959>>, <<5906, 5908>>, <<5938, 5939>>,
      <<5970, 5971>>, <<6002, 6003>>, <<6068, 6069>>, <<6071, 6077>>,
      <<6086, 6086>>, <<6089, 6099>>, <<6103, 6103>>, <<6109, 6109>>,
      <<6155, 6159>>, <<6211, 6211>>, <<6277, 6278>>, <<6313, 6313>>,
      <<6432, 6434>>, <<6439, 6440>>, <<6450, 6450>>, <<6457, 6459>>,
      <<6679, 6680>>, <<6683, 6683>>, <<6742, 6742>>, <<6744, 6750>>,
      <<6752, 6752>>, <<6754, 6754>>, <<6757, 6764>>, <<6771, 6780>>,
      <<6783, 6783>>, <<6823, 6823>>, <<6832, 6862>>, <<6912, 6915>>,
      <<6964, 6964>>, <<6966, 6970>>, <<6972, 6972>>, <<6978, 6978>>,
      <<7019, 7027>>, <<7040, 7041>>, <<7074, 7077>>, <<7080, 7081>>,
      <<7083, 7085>>, <<7142, 7142>>, <<7144, 7145>>, <<7149, 7149>>,
      <<7151, 7153>>, <<7212, 7219>>, <<7222, 7223>>, <<7288, 7293>>,
      <<7376, 7378>>, <<7380, 7392>>, <<7394, 7400>>, <<7405, 7405>>,
      <<7412, 7412>>, <<7416, 7417>>, <<7468, 7530>>, <<7544, 7544>>,
      <<7579, 7679>>, <<8125, 8125>>, <<8127, 8129>>, <<8141, 8143>>,
      <<8157, 8159>>, <<8173, 8175>>, <<8189, 8190>>, <<8203, 8207>>,
      <<8216, 8217>>, <<8228, 8228>>, <<8231, 8231>>, <<8234, 8238>>,
      <<8288, 8292>>, <<8294, 8303>>, <<8305, 8305>>, <<8319, 8319>>,
      <<8336, 8348>>, <<8400, 8432>>, <<11388, 11389>>, <<11503, 11505>>,
      <<11631, 11631>>, <<11647, 11647>>, <<11744, 11775>>, <<11823, 11823>>,
      <<12293, 12293>>, <<12330, 12333>>, <<12337, 12341>>, <<12347, 12347>>,
      <<12441, 12446>>, <<12540, 12542>>, <<40981, 40981>>, <<42232, 42237>>,
      <<42508, 42508>>, <<42607, 42610>>, <<42612, 42621>>, <<42623, 42623>>,
      <<42652, 42655>>, <<42736, 42737>>, <<42752, 42785>>, <<42864, 42864>>,
      <<42888, 42890>>, <<42994, 42996>>, <<43000, 43001>>, <<43010, 43010>>,
      <<43014, 43014>>, <<43019, 43019>>, <<43045, 43046>>, <<43052, 43052>>,
      <<43204, 43205>>, <<43232, 43249>>, <<43263, 43263>>, <<43302, 43309>>,
      <<43335, 43345>>, <<43392, 43394>>, <<43443, 43443>>, <<43446, 43449>>,
      <<43452, 43453>>, <<43471, 43471>>, <<43493, 43494>>, <<43561, 43566>>,
      <<43569, 43570>>, <<43573, 43574>>, <<43587, 43587>>, <<43596, 43596>>,
      <<43632, 43632>>, <<43644, 43644>>, <<43696, 43696>>, <<43698, 43700>>,
      <<43703, 43704>>, <<43710, 43711>>, <<43713, 43713>>, <<43741, 43741>>,
      <<43756, 43757>>, <<43763, 43764>>, <<43766, 43766>>, <<43867, 43871>>,
      <<43881, 43883>>, <<44005, 44005>>, <<44008, 44008>>, <<44013, 44013>>,
      <<64286, 64286>>, <<64434, 64450>>, <<65024, 65039>>, <<65043, 65043>>,
      <<65056, 65071>>, <<65106, 65106>>, <<65109, 65109>>, <<65279, 65279>>,
      <<65287, 65287>>, <<65294, 65294>>, <<65306, 65306>>, <<65342, 65342>>,
      <<65344, 65344>>, <<65392, 65392>>, <<65438, 65439>>, <<65507, 65507>>,
      <<65529, 65531>>, <<66045, 66045>>, <<66272, 66272>>, <<66422, 66426>>,
      <<67456, 67461>>, <<67463, 67504>>, <<67506, 67514>>, <<68097, 68099>>,
      <<68101, 68102>>, <<68108, 68111>>, <<68152, 68154>>, <<68159, 68159>>,
      <<68325, 68326>>, <<68900, 68903>>, <<69291, 69292>>, <<69446, 69456>>,
      <<69506, 69509>>, <<69633, 69633>>, <<69688, 69702>>, <<69744, 69744>>,
      <<69747, 69748>>, <<69759, 69761>>, <<69811, 69814>>, <<69817, 69818>>,
      <<69821, 69821>>, <<69826, 69826>>, <<69837, 69837>>, <<69888, 69890>>,
      <<69927, 69931>>, <<69933, 69940>>, <<70003, 70003>>, <<70016, 70017>>,
      <<70070, 70078>>, <<70089, 70092>>, <<70095, 70095>>, <<70191, 70193>>,
      <<70196, 70196>>, <<70198, 70199>>, <<70206, 70206>>, <<70367, 70367>>,
      <<70371, 70378>>, <<70400, 70401>>, <<70459, 70460>>, <<70464, 70464>>,
      <<70502, 70508>>, <<70512, 70516>>, <<70712, 70719>>, <<70722, 70724>>,
      <<70726, 70726>>, <<70750, 70750>>, <<70835, 70840>>, <<70842, 70842>>,
      <<70847, 70848>>, <<70850, 70851>>, <<71090, 71093>>, <<71100, 71101>>,
      <<71103, 71104>>, <<71132, 71133>>, <<71219, 71226>>, <<71229, 71229>>,
      <<71231, 71232>>, <<71339, 71339>>, <<71341, 71341>>, <<71344, 71349>>,
      <<71351, 71351>>, <<71453, 71455>>, <<71458, 71461>>, <<71463, 71467>>,
      <<71727, 71735>>, <<71737, 71738>>, <<71995, 71996>>, <<71998, 71998>>,
      <<72003, 72003>>, <<72148, 72151>>, <<72154, 72155>>, <<72160, 72160>>,
      <<72193, 72202>>, <<72243, 72248>>, <<72251, 72254>>, <<72263, 72263>>,
      <<72273, 72278>>, <<72281, 72283>>, <<72330, 72342>>, <<72344, 72345>>,
      <<72752, 72758>>, <<72760, 72765>>, <<72767, 72767>>, <<72850, 72871>>,
      <<72874, 72880>>, <<72882, 72883>>, <<72885, 72886>>, <<73009, 73014>>,
      <<73018, 73018>>, <<73020, 73021>>, <<73023, 73029>>, <<73031, 73031>>,
      <<73104, 73105>>, <<73109, 73109>>, <<73111, 73111>>, <<73459, 73460>>,
      <<78896, 78904>>, <<92912, 92916>>, <<92976, 92982>>, <<92992, 92995>>,
      <<94031, 94031>>, <<94095, 94111>>, <<94176, 94177>>, <<94179, 94180>>,
      <<110576, 110579>>, <<110581, 110587>>, <<110589, 110590>>,
      <<113821, 113822>>, <<113824, 113827>>, <<118528, 118573>>,
      <<118576, 118598>>, <<119143, 119145>>, <<119155, 119170>>,
      <<119173, 119179>>, <<119210, 119213>>, <<119362, 119364>>,
      <<121344, 121398>>, <<121403, 121452>>, <<121461, 121461>>,
      <<121476, 121476>>, <<121499, 121503>>, <<121505, 121519>>,
      <<122880, 122886>>, <<122888, 122904>>, <<122907, 122913>>,
      <<122915, 122916>>, <<122918, 122922>>, <<123184, 123197>>,
      <<123566, 123566>>, <<123628, 123631>>, <<125136, 125142>>,
      <<125252, 125259>>, <<127995, 127999>>, <<917505, 917505>>,
      <<917536, 917631>>, <<917760, 917999>> }

CasedRanges ==
    {
      <<65, 90>>, <<97, 122>>, <<170, 170>>, <<181, 181>>, <<186, 186>>,
      <<192, 214>>, <<216, 246>>, <<248, 442>>, <<444, 447>>, <<452, 659>>,
      <<661, 687>>, <<880, 883>>, <<886, 887>>, <<891, 893>>, <<895, 895>>,
      <<902, 902>>, <<904, 906>>, <<908, 908>>, <<910, 929>>, <<931, 1013>>,
      <<1015, 1153>>, <<1162, 1327>>, <<1329, 1366>>, <<1376, 1416>>,
      <<4256, 4293>>, <<4295, 4295>>, <<4301, 4301>>, <<4304, 4346>>,
      <<4349, 4351>>, <<5024, 5109>>, <<5112, 5117>>, <<7296, 7304>>,
      <<7312, 7354>>, <<7357, 7359>>, <<7424, 7467>>, <<7531, 7543>>,
      <<7545, 7578>>, <<7680, 7957>>, <<7960, 7965>>, <<7968, 8005>>,
      <<8008, 8013>>, <<8016, 8023>>, <<8025, 8025>>, <<8027, 8027>>,
      <<8029, 8029>>, <<8031, 8061>>, <<8064, 8116>>, <<8118, 8124>>,
      <<8126, 8126>>, <<8130, 8132>>, <<8134, 8140>>, <<8144, 8147>>,
      <<8150, 8155>>, <<8160, 8172>>, <<8178, 8180>>, <<8182, 8188>>,
      <<8450, 8450>>, <<8455, 8455>>, <<8458, 8467>>, <<8469, 8469>>,
      <<8473, 8477>>, <<8484, 8484>>, <<8486, 8486>>, <<8488, 8488>>,
      <<8490, 8493>>, <<8495, 8500>>, <<8505, 8505>>, <<8508, 8511>>,
      <<8517, 8521>>, <<8526, 8526>>, <<8544, 8575>>, <<8579, 8580>>,
      <<9398, 9449>>, <<11264, 11387>>, <<11390, 11492>>, <<11499, 11502>>,
      <<11506, 11507>>, <<11520, 11557>>, <<11559, 11559>>, <<11565, 11565>>,
      <<42560, 42605>>, <<42624, 42651>>, <<42786, 42863>>, <<42865, 42887>>,
      <<42891, 42894>>, <<42896, 42954>>, <<42960, 42961>>, <<42963, 42963>>,
      <<42965, 42969>>, <<42997, 42998>>, <<43002, 43002>>, <<43824, 43866>>,
      <<43872, 43880>>, <<43888, 43967>>, <<64256, 64262>>, <<64275, 64279>>,
      <<65313, 65338>>, <<65345, 65370>>, <<66560, 66639>>, <<66736, 66771>>,
      <<66776, 66811>>, <<66928, 66938>>, <<66940, 66954>>, <<66956, 66962>>,
      <<66964, 66965>>, <<66967, 66977>>, <<66979, 66993>>, <<66995, 67001>>,
      <<67003, 67004>>, <<68736, 68786>>, <<68800, 68850>>, <<71840, 71903>>,
      <<93760, 93823>>, <<119808, 119892>>, <<119894, 119964>>,
      <<119966, 119967>>, <<119970, 119970>>, <<119973, 119974>>,
      <<119977, 119980>>, <<119982, 119993>>, <<119995, 119995>>,
      <<119997, 120003>>, <<120005, 120069>>, <<120071, 120074>>,
      <<120077, 120084>>, <<120086, 120092>>, <<120094, 120121>>,
      <<120123, 120126>>, <<120128, 120132>>, <<120134, 120134>>,
      <<120138, 120144>>, <<120146, 120485>>, <<120488, 120512>>,
      <<120514, 120538>>, <<120540, 120570>>, <<120572, 120596>>,
      <<120598, 120628>>, <<120630, 120654>>, <<120656, 120686>>,
      <<120688, 120712>>, <<120714, 120744>>, <<120746, 120770>>,
      <<120772, 120779>>, <<122624, 122633>>, <<122635, 122654>>,
      <<125184, 125251>>, <<127280, 127305>>, <<127312, 127337>>,
      <<127344, 127369>> }

(* Capital sigma (931) lowers to final sigma (962) when a cased character   *)
(* precedes it and none follows, case-ignorable characters skipped, else to *)
(* small sigma (963).                                                       *)
FinalSigma(s, i) ==
    LET before == {j \in 1..(i - 1) : ~InRanges(s[j], CaseIgnorableRanges)}
        after == {j \in (i + 1)..Len(s) : ~InRanges(s[j], CaseIgnorableRanges)}
    IN  /\ before # {}
        /\ InRanges(s[CHOOSE j \in before : \A k \in before : k <= j], CasedRanges)
        /\ \/ after = {}
           \/ ~InRanges(s[CHOOSE j \in after : \A k \in after : j <= k], CasedRanges)

(* The lower case of s[i]; capital I with dot above (304) gives two         *)
(* characters.                                                              *)
LowerAt(s, i) ==
    IF s[i] = 931 THEN (IF FinalSigma(s, i) THEN <<962>> ELSE <<963>>)
    ELSE IF s[i] = 304 THEN <<105, 775>>
    ELSE <<LowerChar(s[i])>>

RECURSIVE LowerFrom(_, _)
LowerFrom(s, i) ==
    IF i > Len(s) THEN <<>> ELSE LowerAt(s, i) \o LowerFrom(s, i + 1)

lower(s) == LowerFrom(s, 1)

isdigit(s) == Len(s) > 0 /\ \A i \in 1..Len(s) : s[i] \in DigitChars

DigitValue(c) == c - (CHOOSE z \in DecimalZeros : z <= c /\ c <= z + 9)

RECURSIVE lstripOf(_, _)
lstripOf(s, W) ==
    IF Len(s) > 0 /\ s[1] \in W THEN lstripOf(Tail(s), W) ELSE s

RECURSIVE rstripOf(_, _)
rstripOf(s, W) ==
    IF Len(s) > 0 /\ s[Len(s)] \in W
    THEN rstripOf(SubSeq(s, 1, Len(s) - 1), W) ELSE s

lstrip(s) == lstripOf(s, Whitespace)

rstrip(s) == rstripOf(s, Whitespace)

strip(s) == rstrip(lstrip(s))

(* int(s): whitespace around is dropped, then an optional sign (43, 45),    *)
(* then decimal digits, single underscores (95) allowed between digits;     *)
(* more than MaxStrDigits digits raise ValueError.                          *)
IntBody(s) ==
    LET t == rstripOf(lstripOf(s, IntWhitespace), IntWhitespace) IN
    IF Len(t) > 0 /\ t[1] \in {43, 45} THEN Tail(t) ELSE t

IntParses(s) ==
    LET b == IntBody(s) IN
    /\ Len(b) > 0
    /\ \A i \in 1..Len(b) : b[i] \in DecimalChars \/ b[i] = 95
    /\ b[1] # 95 /\ b[Len(b)] # 95
    /\ \A i \in 1..(Len(b) - 1) : ~(b[i] = 95 /\ b[i + 1] = 95)
    /\ Cardinality({i \in 1..Len(b) : b[i] # 95}) <= MaxStrDigits

RECURSIVE DecimalValue(_)
DecimalValue(b) ==
    IF Len(b) = 0 THEN 0
    ELSE IF b[Len(b)] = 95 THEN DecimalValue(SubSeq(b, 1, Len(b) - 1))
    ELSE 10 * DecimalValue(SubSeq(b, 1, Len(b) - 1)) + DigitValue(b[Len(b)])

int(s) ==
    LET t == lstripOf(s, IntWhitespace) IN
    IF Len(t) > 0 /\ t[1] = 45 THEN 0 - DecimalValue(IntBody(s))
    ELSE DecimalValue(IntBody(s))

(* str.split(): the maximal runs of non-whitespace characters, in order. *)
RECURSIVE SplitFrom(_, _, _)
SplitFrom(s, cur, acc) ==
    IF Len(s) = 0
    THEN (IF Len(cur) > 0 THEN Append(acc, cur) ELSE acc)
    ELSE IF s[1] \in Whitespace
    THEN SplitFrom(Tail(s), <<>>, IF Len(cur) > 0 THEN Append(acc, cur) ELSE acc)
    ELSE SplitFrom(Tail(s), Append(cur, s[1]), acc)

split(s) == SplitFrom(s, <<>>, <<>>)

----------------------------------------------------------------------------
(* Exceptions: the classes that occur and the except clauses. *)

(* The built-in subclasses of OSError. *)
OSErrorClasses ==
    {"BlockingIOError", "ChildProcessError", "ConnectionError", "BrokenPipeError",
     "ConnectionAbortedError", "ConnectionRefusedError", "ConnectionResetError",
     "FileExistsError", "FileNotFoundError", "InterruptedError", "IsADirectoryError",
     "NotADirectoryError", "PermissionError", "ProcessLookupError", "TimeoutError"}

ConnectionErrorClasses ==
    {"BrokenPipeError", "ConnectionAbortedError", "ConnectionRefusedError",
     "ConnectionResetError"}

UnicodeErrorClasses == {"UnicodeDecodeError", "UnicodeEncodeError", "UnicodeTranslateError"}

(* The class of an exception and the classes it inherits from, up to        *)
(* Exception; IOError and EnvironmentError are OSError.                     *)
Superclasses(exc) ==
    {exc, "Exception"}
      \cup (IF exc \in OSErrorClasses THEN {"OSError"} ELSE {})
      \cup (IF exc \in ConnectionErrorClasses THEN {"ConnectionError"} ELSE {})
      \cup (IF exc \in UnicodeErrorClasses THEN {"UnicodeError", "ValueError"} ELSE {})
      \cup (IF exc = "UnicodeError" THEN {"ValueError"} ELSE {})

(* except FileNotFoundError / PermissionError / csv.Error / IOError; IOError is OSError. *)
LoaderCatches(exc) ==
    Superclasses(exc) \cap {"FileNotFoundError", "PermissionError", "csv.Error", "OSError"} # {}

(* Variant: line_generator with only its first except clause. *)
MutGeneratorCatches(exc) ==
    Superclasses(exc) \cap {"FileNotFoundError"} # {}

(* except FileNotFoundError / PermissionError / IOError *)
GeneratorCatches(exc) ==
    Superclasses(exc) \cap {"FileNotFoundError", "PermissionError", "OSError"} # {}

(* Variant: tag_lines catching IndexError only. *)
MutLineCatches(exc) ==
    Superclasses(exc) \cap {"IndexError"} # {}

(* except (ValueError, IndexError) *)
LineCatches(exc) ==
    Superclasses(exc) \cap {"ValueError", "IndexError"} # {}

----------------------------------------------------------------------------
(* dict and defaultdict operations. *)

EmptyDict == <<>>

tcp == Str(<<"t", "c", "p">>)
udp == Str(<<"u", "d", "p">>)
untagged == Str(<<"u", "n", "t", "a", "g", "g", "e", "d">>)

(* lookup_dict[key].append(tag) on a defaultdict(list) *)
DictAppend(d, key, tag) ==
    IF key \in DOMAIN d THEN [d EXCEPT ![key] = Append(@, tag)]
    ELSE d @@ (key :> <<tag>>)

(* counts[key] += 1 on a defaultdict(int) *)
IncCount(c, key) ==
    IF key \in DOMAIN c THEN [c EXCEPT ![key] = @ + 1]
    ELSE c @@ (key :> 1)

(* d[key] = value *)
SetItem(d, key, value) ==
    IF key \in DOMAIN d THEN [d EXCEPT ![key] = value]
    ELSE d @@ (key :> value)

(* lookup_dict.get(key, []): the value read, and the dict after the call. *)
get(d, key, default) == IF key \in DOMAIN d THEN d[key] ELSE default

(* Variant: lookup_dict[key] on the defaultdict, which inserts a missing key. *)
MutDictAfterGet(d, key) == IF key \in DOMAIN d THEN d ELSE d @@ (key :> <<>>)

(* dict.get inserts nothing. *)
DictAfterGet(d, key) == d

----------------------------------------------------------------------------
(* load_lookup_table: one row of the csv reader. *)

RowAccepted(r) ==
    /\ Len(r) = 3
    /\ isdigit(r[1])
    /\ r[2] \in {tcp, udp}

(* The exception the row raises, "none" if none: int(dstport) on a str      *)
(* that passed isdigit and is not decimal.                                 *)
RowRaises(r) ==
    IF RowAccepted(r) /\ ~IntParses(r[1]) THEN "ValueError" ELSE "none"

RowKey(r) == <<int(r[1]), lower(r[2])>>

LoadRowInto(d, r) ==
    IF RowAccepted(r) THEN DictAppend(d, RowKey(r), lower(r[3])) ELSE d

----------------------------------------------------------------------------
(* tag_lines: the body of the loop for one yielded line. *)

OK == Str(<<"O", "K">>)

(* Variant: an off-by-one upper bound of the port. *)
MutPortInRange(n) == 0 <= n /\ n <= MaxPort + 1

(* 0 <= int(dstport) <= 65535 *)
PortInRange(n) == 0 <= n /\ n <= MaxPort

(* Variant: the status compared case-insensitively. *)
MutStatusOK(log_status) == lower(log_status) = lower(OK)

(* log_status != 'OK' rejects the line *)
StatusOK(log_status) == log_status = OK

(* Variant: the two protocol names exchanged. *)
MutProtocolStr(protocol) == IF protocol = Str(<<"6">>) THEN udp ELSE tcp

(* 'tcp' if protocol == '6' else 'udp' *)
ProtocolStr(protocol) == IF protocol = Str(<<"6">>) THEN tcp ELSE udp

(* How the checks of the loop body end for a line, in the order the code    *)
(* evaluates them: the check that rejects it, the exception a conversion    *)
(* raises, or "ok".  fields[i] of the code is fields[i + 1] here.           *)
LineOutcome(line) ==
    LET fields == split(line) IN
    IF Len(fields) # NumFields THEN "fields"
    ELSE IF ~IntParses(fields[1]) THEN "ValueError"
    ELSE IF int(fields[1]) # SupportedVersion THEN "version"
    ELSE IF ~isdigit(fields[6]) THEN "port"
    ELSE IF ~IntParses(fields[6]) THEN "ValueError"
    ELSE IF ~PortInRange(int(fields[6])) THEN "port"
    ELSE IF fields[8] \notin {Str(<<"6">>), Str(<<"1", "7">>)} THEN "protocol"
    ELSE IF ~StatusOK(fields[14]) THEN "status"
    ELSE "ok"

LineKey(line) ==
    LET fields == split(line) IN <<int(fields[6]), ProtocolStr(fields[8])>>

(* for tag in tags: tag_counts[tag] += 1 *)
RECURSIVE CountTags(_, _)
CountTags(tc, tags) ==
    IF Len(tags) = 0 THEN tc
    ELSE CountTags(IncCount(tc, Head(tags)), Tail(tags))

(* Variant: the untagged total stored only when no tag is named "untagged". *)
MutMergeUntagged(tc, n) ==
    IF untagged \in DOMAIN tc THEN tc ELSE SetItem(tc, untagged, n)

(* tag_counts['untagged'] = untagged_count *)
MergeUntagged(tc, n) == SetItem(tc, untagged, n)

----------------------------------------------------------------------------
(* Inputs: the rows the csv reader can return and the raw lines the log    *)
(* file can hold.                                                          *)

(* The str "\u00B2": isdigit is true of it and int() raises on it. *)
SuperscriptTwo == <<178>>

(* The tag of the first row has a non-ASCII capital: "W\u00C9B". *)
RowSet ==
    { <<Str(<<"4", "4", "3">>), tcp, <<87, 201, 66>>>>,
      <<Str(<<"4", "4", "3">>), tcp, untagged>>,
      <<Str(<<"4", "4", "3">>), Str(<<"T", "C", "P">>), Str(<<"w", "e", "b">>)>>,
      <<Str(<<"7", "0", "0", "0", "0">>), udp, Str(<<"b", "i", "g">>)>>,
      <<SuperscriptTwo, tcp, Str(<<"s", "u", "p">>)>>,
      <<Str(<<"p", "o", "r", "t">>), Str(<<"p", "r", "o", "t", "o", "c", "o", "l">>),
        Str(<<"t", "a", "g">>)>>,
      <<Str(<<"2", "5">>), udp>> }

X == Str(<<"x">>)

Fields14(version, dstport, protocol, status) ==
    <<version, X, X, X, X, dstport, X, protocol, X, X, X, X, X, status>>

RECURSIVE Join(_, _)
Join(fields, sep) ==
    IF Len(fields) = 0 THEN <<>>
    ELSE IF Len(fields) = 1 THEN fields[1]
    ELSE fields[1] \o sep \o Join(Tail(fields), sep)

(* A line of the file: the fields separated by spaces (32), then "\n" (10). *)
RawLine(fields) == Join(fields, <<32>>) \o <<10>>

(* The first line is written with other characters: a form feed (12) and a  *)
(* space before the version "02", a tab (9) and a no-break space (160)      *)
(* between fields, and the port 443 with an Arabic-Indic digit three        *)
(* (1635).  The last line is blank.                                         *)
RawLineSet ==
    { <<12, 32>> \o Join(Fields14(Str(<<"0", "2">>), <<52, 52, 1635>>, Str(<<"6">>), OK), <<9, 160>>)
        \o <<32, 10>>,
      RawLine(Fields14(Str(<<"2">>), Str(<<"2", "5">>), Str(<<"1", "7">>), OK)),
      RawLine(Fields14(Str(<<"3">>), Str(<<"4", "4", "3">>), Str(<<"6">>), OK)),
      RawLine(Fields14(<<50, 46, 48>>, Str(<<"4", "4", "3">>), Str(<<"6">>), OK)),
      RawLine(Fields14(Str(<<"2">>), Str(<<"6", "5", "5", "3", "6">>), Str(<<"6">>), OK)),
      RawLine(Fields14(Str(<<"2">>), <<45, 49>>, Str(<<"6">>), OK)),
      RawLine(Fields14(Str(<<"2">>), SuperscriptTwo, Str(<<"6">>), OK)),
      RawLine(Fields14(Str(<<"2">>), Str(<<"4", "4", "3">>), Str(<<"9", "9">>), OK)),
      RawLine(Fields14(Str(<<"2">>), Str(<<"4", "4", "3">>), Str(<<"6">>), Str(<<"o", "k">>))),
      RawLine(SubSeq(Fields14(Str(<<"2">>), Str(<<"4", "4", "3">>), Str(<<"6">>), OK), 2, NumFields)),
      <<32, 10>> }

----------------------------------------------------------------------------
(* State.                                                                   *)
(*   pc      where main is: "open_lookup", "load" (load_lookup_table's      *)
(*           loop), "open_log", "tag" (tag_lines' loop), "merge" (after the *)
(*           loop), "done" (tag_lines returned), "aborted" (an exception    *)
(*           left main)                                                     *)
(*   nrows   rows read from the lookup file;  row  the last one             *)
(*   nread   raw lines read from the log file                               *)
(*   lines   the lines line_generator has yielded, in order                 *)
(*   log     the records logged at WARNING or above, each the pair of its   *)
(*           level and the function that logged it                          *)
(*   raised  the exception that left main, as the pair of its class and the *)
(*           function that raised it; NoException if none                   *)

NoException == <<>>

Init ==
    /\ pc = "open_lookup"
    /\ nrows = 0
    /\ row = <<>>
    /\ lookup_dict = EmptyDict
    /\ nread = 0
    /\ lines = <<>>
    /\ tag_counts = EmptyDict
    /\ port_protocol_counts = EmptyDict
    /\ untagged_count = 0
    /\ log = <<>>
    /\ raised = NoException

tagVars == <<nread, lines, tag_counts, port_protocol_counts, untagged_count>>

(* An exception inside load_lookup_table's try: logged and the table as it  *)
(* stands returned if an except clause matches, else it leaves main.        *)
(* load_lookup_table is left: its locals, the row and the count of rows     *)
(* read, are gone.                                                          *)
LoaderLocalsGone == nrows' = 0 /\ row' = <<>>

LoaderRaise(exc) ==
    /\ IF LoaderCatches(exc)
       THEN /\ log' = Append(log, <<"error", "load_lookup_table">>)
            /\ pc' = "open_log"
            /\ raised' = raised
       ELSE /\ log' = log
            /\ pc' = "aborted"
            /\ raised' = <<exc, "load_lookup_table">>
    /\ LoaderLocalsGone

(* open(filename, 'r') of the lookup file *)
OpenLookup ==
    /\ pc = "open_lookup"
    /\ \/ /\ pc' = "load"
          /\ UNCHANGED <<log, raised>>
          /\ UNCHANGED <<nrows, row>>
       \/ \E exc \in {"FileNotFoundError", "PermissionError", "IsADirectoryError"} :
            LoaderRaise(exc)
    /\ UNCHANGED lookup_dict
    /\ UNCHANGED tagVars

(* for row in reader: one row read and handled *)
LoadRow ==
    /\ pc = "load"
    /\ nrows < MaxRows
    /\ \E r \in RowSet :
        /\ IF RowRaises(r) = "none"
           THEN /\ lookup_dict' = LoadRowInto(lookup_dict, r)
                /\ row' = r
                /\ nrows' = nrows + 1
                /\ UNCHANGED <<pc, log, raised>>
           ELSE /\ lookup_dict' = lookup_dict
                /\ LoaderRaise(RowRaises(r))
    /\ UNCHANGED tagVars

(* the read of the next row fails *)
LoadFail ==
    /\ pc = "load"
    /\ \E exc \in {"OSError", "TimeoutError", "csv.Error", "UnicodeDecodeError"} :
        LoaderRaise(exc)
    /\ UNCHANGED lookup_dict
    /\ UNCHANGED tagVars

(* the reader is exhausted: return lookup_dict *)
LoadEnd ==
    /\ pc = "load"
    /\ pc' = "open_log"
    /\ LoaderLocalsGone
    /\ UNCHANGED <<lookup_dict, log, raised>>
    /\ UNCHANGED tagVars

loadVars == <<nrows, row>>

(* An exception inside line_generator's try: logged and the sequence ended  *)
(* if an except clause matches; else it passes through the for statement of *)
(* tag_lines, which is outside tag_lines' try, and leaves main.             *)
GeneratorRaise(exc) ==
    IF GeneratorCatches(exc)
    THEN /\ log' = Append(log, <<"error", "line_generator">>)
         /\ pc' = "merge"
         /\ raised' = raised
    ELSE /\ log' = log
         /\ pc' = "aborted"
         /\ raised' = <<exc, "line_generator">>

(* tag_lines starts and line_generator opens the log file *)
OpenLog ==
    /\ pc = "open_log"
    /\ \/ /\ pc' = "tag"
          /\ UNCHANGED <<log, raised>>
       \/ /\ log' = Append(log, <<"error", "line_generator">>)
          /\ pc' = "merge"
          /\ UNCHANGED raised
       \/ \E exc \in {"FileNotFoundError", "PermissionError", "IsADirectoryError"} :
            GeneratorRaise(exc)
    /\ UNCHANGED <<lookup_dict>>
    /\ UNCHANGED loadVars
    /\ UNCHANGED tagVars

(* The loop body of tag_lines for an accepted line. *)
CountLine(line) ==
    LET key == LineKey(line)
        tags == get(lookup_dict, key, <<>>)
    IN  /\ port_protocol_counts' = IncCount(port_protocol_counts, key)
        /\ lookup_dict' = DictAfterGet(lookup_dict, key)
        /\ IF Len(tags) > 0
           THEN /\ tag_counts' = CountTags(tag_counts, tags)
                /\ untagged_count' = untagged_count
           ELSE /\ tag_counts' = tag_counts
                /\ untagged_count' = untagged_count + 1
        /\ UNCHANGED <<pc, log, raised>>

(* The loop body for a line a check rejects, or whose conversion raises. *)
SkipLine(line) ==
    /\ IF LineOutcome(line) = "ValueError"
       THEN IF LineCatches("ValueError")
            THEN /\ log' = Append(log, <<"error", "tag_lines">>)
                 /\ UNCHANGED <<pc, raised>>
            ELSE /\ log' = log
                 /\ pc' = "aborted"
                 /\ raised' = <<"ValueError", "tag_lines">>
       ELSE /\ log' = Append(log, <<"warning", "tag_lines">>)
            /\ UNCHANGED <<pc, raised>>
    /\ UNCHANGED <<lookup_dict, tag_counts, port_protocol_counts, untagged_count>>

(* for line in line_generator(input_file): one raw line read; a blank one   *)
(* is not yielded, any other is stripped, yielded and handled.              *)
ReadLine ==
    /\ pc = "tag"
    /\ nread < MaxLines
    /\ \E raw \in RawLineSet :
        LET stripped_line == strip(raw) IN
        /\ nread' = nread + 1
        /\ IF Len(stripped_line) = 0
           THEN UNCHANGED <<lines, lookup_dict, tag_counts, port_protocol_counts,
                            untagged_count, pc, log, raised>>
           ELSE /\ lines' = Append(lines, stripped_line)
                /\ IF LineOutcome(stripped_line) = "ok"
                   THEN CountLine(stripped_line)
                   ELSE SkipLine(stripped_line)
    /\ UNCHANGED loadVars

(* the read of the next line fails *)
ReadFail ==
    /\ pc = "tag"
    /\ \E exc \in {"OSError", "TimeoutError", "UnicodeDecodeError"} : GeneratorRaise(exc)
    /\ UNCHANGED <<lookup_dict>>
    /\ UNCHANGED loadVars
    /\ UNCHANGED tagVars

(* the file is exhausted: the generator returns and the loop ends *)
ReadEnd ==
    /\ pc = "tag"
    /\ pc' = "merge"
    /\ UNCHANGED <<lookup_dict, log, raised>>
    /\ UNCHANGED loadVars
    /\ UNCHANGED tagVars

(* tag_counts['untagged'] = untagged_count; return *)
Merge ==
    /\ pc = "merge"
    /\ tag_counts' = MergeUntagged(tag_counts, untagged_count)
    /\ pc' = "done"
    /\ UNCHANGED <<lookup_dict, log, raised, nread, lines, port_protocol_counts,
                   untagged_count>>
    /\ UNCHANGED loadVars

Next ==
    \/ OpenLookup
    \/ LoadRow
    \/ LoadFail
    \/ LoadEnd
    \/ OpenLog
    \/ ReadLine
    \/ ReadFail
    \/ ReadEnd
    \/ Merge

Spec == Init /\ [][Next]_vars

(* tag_lines alone: main calls it with a table load_lookup_table can       *)
(* return.  main is sequential, so the step it is at is taken.              *)
RECURSIVE TablesAfter(_)
TablesAfter(n) ==
    IF n = 0 THEN {EmptyDict}
    ELSE LET T == TablesAfter(n - 1) IN
         T \cup {LoadRowInto(t, r) : t \in T, r \in {x \in RowSet : RowRaises(x) = "none"}}

TagInit ==
    /\ pc = "open_log"
    /\ nrows = 0
    /\ row = <<>>
    /\ lookup_dict \in TablesAfter(MaxRows)
    /\ nread = 0
    /\ lines = <<>>
    /\ tag_counts = EmptyDict
    /\ port_protocol_counts = EmptyDict
    /\ untagged_count = 0
    /\ log = <<>>
    /\ raised = NoException

TagNext ==
    \/ OpenLog
    \/ ReadLine
    \/ ReadFail
    \/ ReadEnd
    \/ Merge

FairSpec == TagInit /\ [][TagNext]_vars /\ WF_vars(TagNext)

----------------------------------------------------------------------------
(* Vocabulary of the properties: what the specification calls a valid       *)
(* record, its key, and the counts a sequence of lines should produce.      *)

Last(seq) == seq[Len(seq)]

Count(d, k) == IF k \in DOMAIN d THEN d[k] ELSE 0

Occurrences(seq, x) == Cardinality({i \in 1..Len(seq) : seq[i] = x})

Elements(seq) == {seq[i] : i \in 1..Len(seq)}

(* 14 fields, field 0 the integer 2, field 5 a digit string with a value in *)
(* [0,65535], field 7 "6" or "17", field 13 "OK".                           *)
ValidRecord(line) ==
    LET f == split(line) IN
    /\ Len(f) = 14
    /\ IntParses(f[1]) /\ int(f[1]) = 2
    /\ isdigit(f[6]) /\ IntParses(f[6]) /\ int(f[6]) >= 0 /\ int(f[6]) <= 65535
    /\ f[8] \in {Str(<<"6">>), Str(<<"1", "7">>)}
    /\ f[14] = Str(<<"O", "K">>)

RecordKey(line) ==
    LET f == split(line) IN
    <<int(f[6]), IF f[8] = Str(<<"6">>) THEN tcp ELSE udp>>

TagsOf(key) == IF key \in DOMAIN lookup_dict THEN lookup_dict[key] ELSE <<>>

(* A step of the loop of tag_lines that handled a yielded line. *)
LineHandled == pc = "tag" /\ lines' # lines

CountsUnchanged ==
    /\ tag_counts' = tag_counts
    /\ port_protocol_counts' = port_protocol_counts
    /\ untagged_count' = untagged_count

ValidLines == {i \in 1..Len(lines) : ValidRecord(lines[i])}

UntaggedLines == {i \in ValidLines : Len(TagsOf(RecordKey(lines[i]))) = 0}

RECURSIVE SumOver(_, _)
SumOver(d, keys) ==
    IF keys = {} THEN 0
    ELSE LET k == CHOOSE x \in keys : TRUE IN d[k] + SumOver(d, keys \ {k})

Total(d) == SumOver(d, DOMAIN d)

----------------------------------------------------------------------------
(* C1: handling a valid record adds exactly 1 to PortProtocolCounts at the  *)
(* record's key and nowhere else, adds 1 to TagCounts[tag] for every tag    *)
(* entry the lookup table holds for the key, and, when it holds none, adds  *)
(* exactly 1 to the untagged counter and changes no tag count.              *)
C1_ValidLineCounted ==
    [][ (LineHandled /\ ValidRecord(Last(lines'))) =>
        LET key == RecordKey(Last(lines'))
            tags == TagsOf(key)
        IN  /\ \A k \in DOMAIN port_protocol_counts \cup DOMAIN port_protocol_counts' \cup {key} :
                 Count(port_protocol_counts', k)
                   = Count(port_protocol_counts, k) + (IF k = key THEN 1 ELSE 0)
            /\ \A t \in DOMAIN tag_counts \cup DOMAIN tag_counts' \cup Elements(tags) :
                 Count(tag_counts', t) = Count(tag_counts, t) + Occurrences(tags, t)
            /\ untagged_count' = untagged_count + (IF Len(tags) = 0 THEN 1 ELSE 0)
      ]_vars

(* A valid record whose key has two tag entries has been counted, after a   *)
(* valid record whose key has none.                                         *)
C1_Witness ==
    /\ pc = "tag"
    /\ Len(lines) = 2
    /\ ValidRecord(lines[1]) /\ Len(TagsOf(RecordKey(lines[1]))) = 0
    /\ ValidRecord(lines[2]) /\ Len(TagsOf(RecordKey(lines[2]))) = 2
    /\ Count(port_protocol_counts, RecordKey(lines[2])) = 1
    /\ untagged_count = 1
    /\ Cardinality(DOMAIN tag_counts) = 2

(* C2 as stated: a line failing a check leaves the three tallies unchanged  *)
(* and a warning is logged for it.                                          *)
C2_RejectedLineWarned ==
    [][ (LineHandled /\ ~ValidRecord(Last(lines'))) =>
        /\ CountsUnchanged
        /\ log' = Append(log, <<"warning", "tag_lines">>)
      ]_vars

(* The rejection is a failed integer conversion: field 0 is no integer      *)
(* literal, or field 5 passes isdigit and int() does not accept it.         *)
ConversionFails(line) ==
    LET f == split(line) IN
    /\ Len(f) = 14
    /\ \/ ~IntParses(f[1])
       \/ int(f[1]) = 2 /\ isdigit(f[6]) /\ ~IntParses(f[6])

(* C2 amended: a line failing a check leaves the three tallies unchanged    *)
(* and exactly one record is logged for it, a warning, or an error when the *)
(* rejection is a failed integer conversion.                                *)
C2_RejectedLineLogged ==
    [][ (LineHandled /\ ~ValidRecord(Last(lines'))) =>
        /\ CountsUnchanged
        /\ pc' = "tag"
        /\ log' = Append(log, <<IF ConversionFails(Last(lines')) THEN "error" ELSE "warning",
                                "tag_lines">>)
      ]_vars

(* A line was rejected by a check with a warning, then a line by a failed   *)
(* integer conversion with an error record, and nothing was counted.        *)
C2_Witness ==
    /\ pc = "tag"
    /\ Len(lines) = 2
    /\ ~ValidRecord(lines[1]) /\ ~ConversionFails(lines[1])
    /\ ~ValidRecord(lines[2]) /\ ConversionFails(lines[2])
    /\ log = <<<<"warning", "tag_lines">>, <<"error", "tag_lines">>>>
    /\ port_protocol_counts = EmptyDict /\ tag_counts = EmptyDict /\ untagged_count = 0

(* C3: the TagCounts tag_lines returns holds "untagged", and its value is   *)
(* the number of accepted lines whose key has no tag in the lookup table,   *)
(* also when the table defines a tag named "untagged".                      *)
C3_UntaggedPresent ==
    pc = "done" =>
        /\ untagged \in DOMAIN tag_counts
        /\ tag_counts[untagged] = Cardinality(UntaggedLines)

(* The table tags a key "untagged", two records were counted, the first    *)
(* with that key and neither untagged, and tag_lines returned 0 under       *)
(* "untagged".                                                              *)
C3_Witness ==
    /\ pc = "done"
    /\ Len(lines) = 2
    /\ ValidRecord(lines[1]) /\ untagged \in Elements(TagsOf(RecordKey(lines[1])))
    /\ ValidRecord(lines[2])
    /\ Cardinality(UntaggedLines) = 0
    /\ tag_counts[untagged] = 0

(* What the specification calls an accepted lookup row: three fields, the   *)
(* port a non-negative integer digit string, the protocol "tcp" or "udp"    *)
(* compared case-insensitively.                                             *)
ValidRow(r) ==
    /\ Len(r) = 3
    /\ isdigit(r[1]) /\ IntParses(r[1])
    /\ lower(r[2]) \in {tcp, udp}

(* A step of the loop of load_lookup_table that handled a row. *)
RowHandled == pc = "load" /\ pc' = "load" /\ nrows' = nrows + 1

(* C4: a row is accepted iff it is a valid row in that sense; an accepted   *)
(* row appends its lowercased tag to the sequence under (integer port,      *)
(* lowercased protocol), and every other row leaves the table as it was.    *)
C4_RowAcceptedIffValid ==
    [][ RowHandled =>
        lookup_dict' =
            IF ValidRow(row')
            THEN LET key == <<int(row'[1]), lower(row'[2])>> IN
                 IF key \in DOMAIN lookup_dict
                 THEN [lookup_dict EXCEPT ![key] = Append(@, lower(row'[3]))]
                 ELSE lookup_dict @@ (key :> <<lower(row'[3])>>)
            ELSE lookup_dict
      ]_vars

(* A step in which opening or reading the lookup file failed. *)
LoadFailed ==
    /\ pc \in {"open_lookup", "load"}
    /\ \/ log' # log
       \/ pc' = "aborted" /\ raised'[1] = "UnicodeDecodeError"

(* C5: when opening or reading the lookup file fails, the failure is        *)
(* reported, load_lookup_table returns an empty table and the run goes on;  *)
(* the returned "untagged" count is then the number of accepted lines.      *)
C5_LoadFailureGivesEmptyTable ==
    /\ [][ LoadFailed =>
           /\ pc' = "open_log"
           /\ log' = Append(log, <<"error", "load_lookup_table">>)
           /\ lookup_dict' = EmptyDict
         ]_vars
    /\ []( (pc = "done" /\ Len(log) > 0 /\ log[1][2] = "load_lookup_table") =>
           tag_counts[untagged] = Cardinality(ValidLines) )

(* C6: tag_lines handles every yielded line and goes on to the next: no     *)
(* line raises out of tag_lines or ends the loop, the accepted lines are    *)
(* all counted wherever they stand among rejected ones, and once in its     *)
(* loop tag_lines returns, unless the line source itself raises.            *)
C6_EveryLineProcessed ==
    /\ [][ LineHandled => pc' = "tag" ]_vars
    /\ [](raised # NoException => raised[2] # "tag_lines")
    /\ [](pc \in {"merge", "done"} =>
            LET valid == ValidLines
                keyOf == [i \in valid |-> RecordKey(lines[i])]
            IN  \A key \in DOMAIN port_protocol_counts \cup {keyOf[i] : i \in valid} :
                    Count(port_protocol_counts, key) = Cardinality({i \in valid : keyOf[i] = key}))
    /\ (pc = "tag") ~> (pc = "done" \/ (pc = "aborted" /\ raised[2] = "line_generator"))

(* tag_lines returned after a line whose conversion failed and then an      *)
(* accepted line, which was counted.                                        *)
C6_Witness ==
    /\ pc = "done"
    /\ Len(lines) = 2
    /\ ConversionFails(lines[1])
    /\ ValidRecord(lines[2])
    /\ Total(port_protocol_counts) = 1

(* C7: TagCounts and PortProtocolCounts start empty, and in every step of   *)
(* the run, the final merge included, no key is removed and no count gets   *)
(* smaller.                                                                 *)
C7_CountsMonotonic ==
    /\ tag_counts = EmptyDict /\ port_protocol_counts = EmptyDict
    /\ [][ /\ \A t \in DOMAIN tag_counts :
                t \in DOMAIN tag_counts' /\ tag_counts'[t] >= tag_counts[t]
           /\ \A k \in DOMAIN port_protocol_counts :
                /\ k \in DOMAIN port_protocol_counts'
                /\ port_protocol_counts'[k] >= port_protocol_counts[k]
         ]_vars

(* The counts a sequence of yielded lines should give. *)
CountsReflectLines ==
    LET valid == ValidLines
        keyOf == [i \in valid |-> RecordKey(lines[i])]
        tagsOf == [i \in valid |-> TagsOf(keyOf[i])]
    IN  /\ DOMAIN port_protocol_counts = {keyOf[i] : i \in valid}
        /\ \A key \in DOMAIN port_protocol_counts :
              port_protocol_counts[key] = Cardinality({i \in valid : keyOf[i] = key})
        /\ DOMAIN tag_counts = {untagged} \cup UNION {Elements(tagsOf[i]) : i \in valid}
        /\ tag_counts[untagged] = Cardinality({i \in valid : Len(tagsOf[i]) = 0})
        /\ \A t \in DOMAIN tag_counts \ {untagged} :
              tag_counts[t] = SumOver([i \in valid |-> Occurrences(tagsOf[i], t)], valid)

(* C8: an I/O failure in line_generator is reported and ends the sequence   *)
(* without reaching the caller; tag_lines then returns counts that reflect  *)
(* exactly the lines yielded before it; a log file that does not exist      *)
(* gives TagCounts = {"untagged": 0} and an empty PortProtocolCounts.       *)
C8_SourceFailureEndsSequence ==
    /\ [][ (pc \in {"open_log", "tag"} /\ raised' # raised) =>
               "OSError" \notin Superclasses(raised'[1]) ]_vars
    /\ [][ (pc \in {"open_log", "tag"} /\ pc' = "merge" /\ log' # log) =>
               /\ log' = Append(log, <<"error", "line_generator">>)
               /\ CountsUnchanged /\ lines' = lines ]_vars
    /\ [](pc = "done" => CountsReflectLines)
    /\ []((pc = "done" /\ nread = 0) =>
               /\ tag_counts = (untagged :> 0)
               /\ port_protocol_counts = EmptyDict)

(* tag_lines returned after one accepted line was yielded and the next read *)
(* failed: the failure is the last record logged and the line is counted.   *)
C8_Witness ==
    /\ pc = "done"
    /\ Len(lines) = 1 /\ nread = 1
    /\ ValidRecord(lines[1])
    /\ Len(log) > 0 /\ Last(log) = <<"error", "line_generator">>
    /\ Total(port_protocol_counts) = 1

IsLookupKey(k) == k[1] \in 0..65535 /\ k[2] \in {tcp, udp}

(* C9 as stated: every key of the lookup table and of PortProtocolCounts    *)
(* is a port in [0,65535] paired with "tcp" or "udp".                       *)
C9_KeysAreLookupKeys ==
    /\ \A k \in DOMAIN lookup_dict : IsLookupKey(k)
    /\ \A k \in DOMAIN port_protocol_counts : IsLookupKey(k)

(* C9 amended: every key of PortProtocolCounts is a port in [0,65535]       *)
(* paired with "tcp" or "udp"; every key of the lookup table is a           *)
(* non-negative integer port, of any size, paired with "tcp" or "udp".      *)
C9_KeysWellFormed ==
    /\ \A k \in DOMAIN lookup_dict : k[1] \in Nat /\ k[2] \in {tcp, udp}
    /\ \A k \in DOMAIN port_protocol_counts : IsLookupKey(k)

(* The table holds a key above 65535 and records of both protocols were     *)
(* counted.                                                                 *)
C9_Witness ==
    /\ \E k \in DOMAIN lookup_dict : k[1] > 65535
    /\ \E k \in DOMAIN port_protocol_counts : k[2] = tcp
    /\ \E k \in DOMAIN port_protocol_counts : k[2] = udp

(* C10: tag_lines leaves the lookup table as load_lookup_table returned it: *)
(* no step from its call to its return adds a key or changes a tag          *)
(* sequence.                                                                *)
C10_LookupReadOnly ==
    [][ (pc \in {"open_log", "tag", "merge"}) => (lookup_dict' = lookup_dict) ]_vars

(* A key the non-empty table does not hold was looked up twice. *)
C10_Witness ==
    /\ pc = "done"
    /\ lookup_dict # EmptyDict
    /\ Len(lines) = 2
    /\ ValidRecord(lines[1]) /\ ValidRecord(lines[2])
    /\ RecordKey(lines[1]) = RecordKey(lines[2])
    /\ RecordKey(lines[1]) \notin DOMAIN lookup_dict
    /\ untagged_count = 2

====
